---- MODULE Spec2Model ----
(***************************************************************************)
(* yyyymmdd: the DateRange class (src/yyyymmdd/range.py) over the Date     *)
(* class (src/yyyymmdd/date.py).                                           *)
(*                                                                         *)
(* A Date is modelled by its proleptic Gregorian ordinal.  A DateRange is  *)
(* modelled by its only field, _ordrange, a Python range(start, stop,      *)
(* step) over ordinals.  The calendar window [Date.min, Date.max] is       *)
(* scaled down to MinOrd..MaxOrd.  A call either returns a value or raises *)
(* an exception; both are outcomes [kind, val].  TIMEZONE is the module    *)
(* global of src/yyyymmdd/tz.py.                                           *)
(***************************************************************************)
EXTENDS Integers, Sequences, FiniteSets, TLC

VARIABLES r, op, arg, res, TIMEZONE

vars == <<r, op, arg, res, TIMEZONE>>

-----------------------------------------------------------------------------
(* Bounds of the model and constants of the program *)

\* ordinal of Date.min (datetime.date.min is 0001-01-01, ordinal 1)
MinOrd == 1

\* ordinal of Date.max, scaled down from 9999-12-31
MaxOrd == 6

\* largest |step| of a range given to the constructor
MaxStep == 4

\* largest |i| of an index r[i] and of a slice bound r[i:j:k]
MaxIdx == 3

\* largest |k| of a slice step r[i:j:k]
MaxSliceStep == 2

-----------------------------------------------------------------------------
(* Python integer arithmetic *)

Abs(n) == IF n < 0 THEN -n ELSE n

Min2(x, y) == IF x <= y THEN x ELSE y

Max2(x, y) == IF x >= y THEN x ELSE y

\* Python's a // b (floor division), b # 0
FloorDiv(a, b) == IF b > 0 THEN a \div b ELSE (-a) \div (-b)

\* Python's a % b (result has the sign of b), b # 0
PyMod(a, b) == a - b * FloorDiv(a, b)

-----------------------------------------------------------------------------
(* Outcomes of a call *)

NoVal == <<>>

Ok(v) == [kind |-> "ok", val |-> v]

Raise(e) == [kind |-> e, val |-> NoVal]

IsOk(o) == o.kind = "ok"

-----------------------------------------------------------------------------
(* Date *)

Domain == MinOrd..MaxOrd

\* datetime.date.fromordinal, as called by Date.__add__ and DateRange._o2d
fromordinal(o) == IF o \in Domain THEN Ok(o) ELSE Raise("ValueError")

\* Date.__add__(self, days)
DateAdd(d, days) == fromordinal(d + days)

\* Date.__sub__(self, x) for a Date x: the difference in days
DateSub(d, x) == d - x

\* the objects that have a toordinal method
DateObjects == {"Date", "date", "datetime"}

-----------------------------------------------------------------------------
(* Text: a str is a sequence of one-character strings *)

DigitChars == <<"0", "1", "2", "3", "4", "5", "6", "7", "8", "9">>

IsDigit(c) == \E n \in 1..10 : DigitChars[n] = c

DigitVal(c) == (CHOOSE n \in 1..10 : DigitChars[n] = c) - 1

AllDigits(s) == \A n \in 1..Len(s) : IsDigit(s[n])

\* the decimal digits of a natural number
RECURSIVE NatStr(_)
NatStr(n) ==
    IF n < 10 THEN <<DigitChars[n + 1]>>
    ELSE NatStr(n \div 10) \o <<DigitChars[(n % 10) + 1]>>

\* str(n) for an int
IntStr(n) == IF n < 0 THEN <<"-">> \o NatStr(-n) ELSE NatStr(n)

\* the value of a sequence of digits
RECURSIVE NatVal(_)
NatVal(s) ==
    IF s = <<>> THEN 0
    ELSE 10 * NatVal(SubSeq(s, 1, Len(s) - 1)) + DigitVal(s[Len(s)])

\* int(s): an optional sign and at least one digit
PyInt(s) ==
    LET signed == s # <<>> /\ s[1] \in {"+", "-"}
        digits == IF signed THEN Tail(s) ELSE s
    IN  IF digits = <<>> \/ ~AllDigits(digits) THEN Raise("ValueError")
        ELSE Ok(IF signed /\ s[1] = "-" THEN -NatVal(digits) ELSE NatVal(digits))

\* n copies of "0", then s
RECURSIVE ZeroPad(_, _)
ZeroPad(n, s) == IF n <= 0 THEN s ELSE ZeroPad(n - 1, <<"0">> \o s)

\* s.split(c) for a one-character delimiter
RECURSIVE SplitFrom(_, _, _)
SplitFrom(s, c, cur) ==
    IF s = <<>> THEN <<cur>>
    ELSE IF Head(s) = c THEN <<cur>> \o SplitFrom(Tail(s), c, <<>>)
    ELSE SplitFrom(Tail(s), c, Append(cur, Head(s)))

Split(s, c) == SplitFrom(s, c, <<>>)

UpperChars == <<"A", "D", "E", "I", "M", "N", "O", "R", "S", "T", "W", "X", "Y">>

LowerChars == <<"a", "d", "e", "i", "m", "n", "o", "r", "s", "t", "w", "x", "y">>

\* s.lower()
Lower(s) ==
    [n \in 1..Len(s) |->
        IF \E u \in 1..Len(UpperChars) : UpperChars[u] = s[n]
        THEN LowerChars[CHOOSE u \in 1..Len(UpperChars) : UpperChars[u] = s[n]]
        ELSE s[n]]

-----------------------------------------------------------------------------
(* The calendar of datetime.date *)

IsLeap(y) == y % 4 = 0 /\ (y % 100 # 0 \/ y % 400 = 0)

DaysInMonth(y, m) ==
    IF m = 2 THEN (IF IsLeap(y) THEN 29 ELSE 28)
    ELSE IF m \in {4, 6, 9, 11} THEN 30 ELSE 31

DaysBeforeYear(y) ==
    (y - 1) * 365 + (y - 1) \div 4 - (y - 1) \div 100 + (y - 1) \div 400

RECURSIVE DaysBeforeMonth(_, _)
DaysBeforeMonth(y, m) ==
    IF m = 1 THEN 0 ELSE DaysBeforeMonth(y, m - 1) + DaysInMonth(y, m - 1)

\* date(y, m, d).toordinal()
YmdOrd(y, m, d) == DaysBeforeYear(y) + DaysBeforeMonth(y, m) + d

RECURSIVE YearOf(_, _)
YearOf(o, y) == IF o <= DaysBeforeYear(y + 1) THEN y ELSE YearOf(o, y + 1)

RECURSIVE MonthOf(_, _, _)
MonthOf(o, y, m) ==
    IF o <= DaysBeforeYear(y) + DaysBeforeMonth(y, m) + DaysInMonth(y, m)
    THEN m ELSE MonthOf(o, y, m + 1)

\* date.fromordinal(o) as <<year, month, day>>
OrdYmd(o) ==
    LET y == YearOf(o, 1)
        m == MonthOf(o, y, 1)
    IN  <<y, m, o - DaysBeforeYear(y) - DaysBeforeMonth(y, m)>>

-----------------------------------------------------------------------------
(* The builtin range, held in DateRange._ordrange *)

Range(start, stop, step) == [start |-> start, stop |-> stop, step |-> step]

\* a length that divides the span by the step and rounds down
RangeLenFloor(g) == Max2(0, FloorDiv(g.stop - g.start, g.step))

\* len(range): the number of terms start, start+step, ... before stop
RangeLen(g) ==
    IF g.step > 0
    THEN IF g.start < g.stop THEN (g.stop - g.start - 1) \div g.step + 1 ELSE 0
    ELSE IF g.start > g.stop THEN (g.start - g.stop - 1) \div (-g.step) + 1 ELSE 0

\* list(range): the terms from o on, in order
RECURSIVE RangeIter(_, _)
RangeIter(g, o) ==
    IF (g.step > 0 /\ o < g.stop) \/ (g.step < 0 /\ o > g.stop)
    THEN <<o>> \o RangeIter(g, o + g.step)
    ELSE <<>>

\* an indexing without the negative indexes
RangeItemNoNegative(g, i) ==
    IF i < 0 \/ i >= RangeLen(g) THEN Raise("IndexError")
    ELSE Ok(g.start + i * g.step)

\* range[i] for an integer i
RangeItem(g, i) ==
    LET n == RangeLen(g)
        j == IF i < 0 THEN i + n ELSE i
    IN  IF j < 0 \/ j >= n THEN Raise("IndexError") ELSE Ok(g.start + j * g.step)

\* an omitted slice bound, and a given one
None == [none |-> TRUE, n |-> 0]

Some(n) == [none |-> FALSE, n |-> n]

\* one bound of slice.indices(n): negative counts from the end, then clamped
SliceBound(x, n, lower, upper, dflt) ==
    IF x.none THEN dflt
    ELSE IF x.n < 0
         THEN IF x.n + n < lower THEN lower ELSE x.n + n
         ELSE IF x.n > upper THEN upper ELSE x.n

\* slice(i, j, k).indices(n), k # 0
SliceIndices(i, j, k, n) ==
    LET lower == IF k < 0 THEN -1 ELSE 0
        upper == IF k < 0 THEN n - 1 ELSE n
    IN  <<SliceBound(i, n, lower, upper, IF k < 0 THEN upper ELSE lower),
          SliceBound(j, n, lower, upper, IF k < 0 THEN lower ELSE upper)>>

\* a slicing that takes k as the step of the result
RangeSliceStepK(g, i, j, k) ==
    IF k = 0 THEN Raise("ValueError")
    ELSE LET ix == SliceIndices(i, j, k, RangeLen(g))
         IN  Ok(Range(g.start + ix[1] * g.step, g.start + ix[2] * g.step, k))

\* range[i:j:k]
RangeSlice(g, i, j, k) ==
    IF k = 0 THEN Raise("ValueError")
    ELSE LET ix == SliceIndices(i, j, k, RangeLen(g))
         IN  Ok(Range(g.start + ix[1] * g.step, g.start + ix[2] * g.step,
                      g.step * k))

\* a membership test that looks at the bounds alone
RangeContainsBounds(g, x) ==
    IF g.step > 0 THEN g.start <= x /\ x < g.stop
                  ELSE x <= g.start /\ g.stop < x

\* x in range
RangeContains(g, x) ==
    /\ IF g.step > 0 THEN g.start <= x /\ x < g.stop
                     ELSE x <= g.start /\ g.stop < x
    /\ PyMod(x - g.start, g.step) = 0

\* range.index(x)
RangeIndex(g, x) ==
    IF RangeContains(g, x) THEN Ok(FloorDiv(x - g.start, g.step))
    ELSE Raise("ValueError")

\* range.count(x)
RangeCount(g, x) == IF RangeContains(g, x) THEN 1 ELSE 0

\* range == range
RangeEquals(g, h) ==
    LET n == RangeLen(g)
    IN  IF n # RangeLen(h) THEN FALSE
        ELSE IF n = 0 THEN TRUE
        ELSE IF g.start # h.start THEN FALSE
        ELSE IF n = 1 THEN TRUE
        ELSE g.step = h.step

-----------------------------------------------------------------------------
(* Date: text form and construction from a date-like value *)

\* datetime.date(y, m, d): a date of the supported window, or ValueError
DateYmd(y, m, d) ==
    IF /\ y >= 1
       /\ m \in 1..12
       /\ d >= 1
       /\ d <= DaysInMonth(y, m)
       /\ YmdOrd(y, m, d) \in Domain
    THEN Ok(YmdOrd(y, m, d))
    ELSE Raise("ValueError")

\* strftime("%Y"): the C library pads the year to four digits or does not
YearText(y, ypad) == IF ypad THEN ZeroPad(4 - Len(NatStr(y)), NatStr(y)) ELSE NatStr(y)

TwoDigits(n) == ZeroPad(2 - Len(NatStr(n)), NatStr(n))

\* Date.__str__: strftime("%Y%m%d") of the date with ordinal d
DateStr(d, ypad) ==
    LET t == OrdYmd(d)
    IN  YearText(t[1], ypad) \o TwoDigits(t[2]) \o TwoDigits(t[3])

\* strftime("%Y-%m-%d")
DateStrDashed(d, ypad) ==
    LET t == OrdYmd(d)
    IN  YearText(t[1], ypad) \o <<"-">> \o TwoDigits(t[2]) \o <<"-">> \o TwoDigits(t[3])

\* date._pad_date_string
pad_date_string(x) ==
    LET dashed == \E n \in 1..Len(x) : x[n] = "-"
        unpadded == IF dashed THEN Split(x, "-")[1] ELSE x
        n == IF dashed THEN 4 ELSE 8
    IN  ZeroPad(Max2(0, n - Len(unpadded)), x)

\* the month and day fields of strptime: two digits, or one digit 1..9
FieldOk(f, most) ==
    /\ Len(f) \in {1, 2}
    /\ AllDigits(f)
    /\ NatVal(f) \in 1..most
    /\ Len(f) = 2 \/ f[1] # "0"

\* datetime.strptime(x, "%Y" sep "%m" sep "%d").date(), sep empty or "-"
Strptime(x, sep) ==
    LET k == Len(sep)
        fits(ml, dl) ==
            /\ Len(x) = 4 + k + ml + k + dl
            /\ AllDigits(SubSeq(x, 1, 4))
            /\ SubSeq(x, 5, 4 + k) = sep
            /\ FieldOk(SubSeq(x, 5 + k, 4 + k + ml), 12)
            /\ SubSeq(x, 5 + k + ml, 4 + k + ml + k) = sep
            /\ FieldOk(SubSeq(x, 5 + k + ml + k, Len(x)), 31)
        take(ml, dl) ==
            DateYmd(NatVal(SubSeq(x, 1, 4)),
                    NatVal(SubSeq(x, 5 + k, 4 + k + ml)),
                    NatVal(SubSeq(x, 5 + k + ml + k, Len(x))))
    IN  IF fits(2, 2) THEN take(2, 2)
        ELSE IF fits(2, 1) THEN take(2, 1)
        ELSE IF fits(1, 2) THEN take(1, 2)
        ELSE IF fits(1, 1) THEN take(1, 1)
        ELSE Raise("ValueError")

\* date._DELTA_MAP
DELTA_MAP ==
    {<<(<<"y", "e", "s", "t">>), -1>>,
     <<(<<"y", "e", "s", "t", "e", "r", "d", "a", "y">>), -1>>,
     <<(<<"t", "o", "d", "a", "y">>), 0>>,
     <<(<<"t", "o", "m", "o", "r", "r", "o", "w">>), 1>>}

\* date._DATE_ALIASES
DATE_ALIASES == {<<(<<"M", "I", "N">>), MinOrd>>, <<(<<"M", "A", "X">>), MaxOrd>>}

Lookup(map, key) == (CHOOSE e \in map : e[1] = key)[2]

HasKey(map, key) == \E e \in map : e[1] = key

\* the try/except around int(x) in date._delta_from_string
IntOrNone(n) == IF IsOk(n) THEN n ELSE Raise("None")

\* date._delta_from_string past the lookup of the lower-cased text
DeltaOf(lowered, x) ==
    IF HasKey(DELTA_MAP, lowered) THEN Ok(Lookup(DELTA_MAP, lowered))
    ELSE IF (x # <<>> /\ x[1] \in {"+", "-"}) \/ x = <<"0">>
         THEN IntOrNone(PyInt(x))
         ELSE Raise("None")

\* date._delta_from_string: Ok(delta), or Raise("None") for no delta
delta_from_string(x) == DeltaOf(Lower(x), x)

\* date._from_delta: today plus a number of days
from_delta(x, today) ==
    IF today + x \in Domain THEN Ok(today + x) ELSE Raise("OverflowError")

\* the loop of date._from_string over _FORMATS: the first format that parses
FirstFormat(plain, dashed) ==
    IF IsOk(plain) THEN plain ELSE IF IsOk(dashed) THEN dashed ELSE Raise("None")

\* date._from_string past the padding of the text
FromPadded(x) == FirstFormat(Strptime(x, <<>>), Strptime(x, <<"-">>))

\* date._from_string past the reading of a delta
FromDelta(delta, x, today) ==
    IF IsOk(delta) THEN from_delta(delta.val, today)
    ELSE IF HasKey(DATE_ALIASES, x) THEN Ok(Lookup(DATE_ALIASES, x))
    ELSE FromPadded(pad_date_string(x))

\* a _from_string that reads every text as the current day
from_string_dateToday(x, today) == from_delta(0, today)

\* date._from_string: Ok(date), Raise("None") for None, or the error raised
from_string_date(x, today) ==
    IF x = <<>> THEN Raise("ValueError") ELSE FromDelta(delta_from_string(x), x, today)

\* date._from_int
from_int(x, today) ==
    IF x < 1 THEN from_delta(x, today)
    ELSE DateYmd(x \div 10000, (x \div 100) % 100, x % 100)

\* date._to_dt_date
to_dt_date(x, today) ==
    IF x.kind \in DateObjects THEN Ok(x.ord)
    ELSE IF x.kind = "str" THEN from_string_date(x.text, today)
    ELSE IF x.kind = "int" THEN from_int(x.n, today)
    ELSE Raise("None")

\* Date.__new__ past the conversion: no date is a ValueError
OrInvalid(d) == IF d.kind = "None" THEN Raise("ValueError") ELSE d

\* Date.__new__ with one argument: the Date a date-like value converts to
DateNew(x, today) == OrInvalid(to_dt_date(x, today))

-----------------------------------------------------------------------------
(* DateRange *)

\* DateRange.__init__ with start and stop already Dates
New(start, stop, step) ==
    IF step = 0 THEN Raise("ValueError") ELSE Ok(Range(start, stop, step))

\* DateRange.empty
empty == New(MaxOrd, MaxOrd, 1)

\* DateRange.__len__
DateRangeLen(self) == RangeLen(self)

\* DateRange.__bool__
Bool(self) == RangeLen(self) # 0

\* DateRange.start, DateRange.stop (properties converting the ordinal back)
StartOf(self) == fromordinal(self.start)

StopOf(self) == fromordinal(self.stop)

\* DateRange._o2d
o2d(ordinal) == fromordinal(ordinal)

\* a _d2o that converts its argument as the constructor does
d2oConverting(date) ==
    LET d == DateNew(date, MinOrd)
    IN  IF d.kind = "OverflowError" THEN Raise("ValueError") ELSE d

\* DateRange._d2o: date.toordinal()
d2o(date) ==
    IF date.kind \in DateObjects THEN Ok(date.ord) ELSE Raise("AttributeError")

\* DateRange._from_ordrange: a stub DateRange(Date.min, Date.min) whose
\* _ordrange is replaced
from_ordrange(ordrange) == Ok(ordrange)

\* DateRange.__iter__, as list(r): every term goes through _o2d
RECURSIVE DatesOf(_)
DatesOf(ords) ==
    IF ords = <<>> THEN Ok(<<>>)
    ELSE LET d == o2d(Head(ords))
             t == DatesOf(Tail(ords))
         IN  IF ~IsOk(d) THEN d
             ELSE IF ~IsOk(t) THEN t
             ELSE Ok(<<d.val>> \o t.val)

Iter(self) == DatesOf(RangeIter(self, self.start))

\* DateRange.__contains__
Contains(self, date) ==
    LET o == d2o(date)
    IN  IF IsOk(o) THEN Ok(RangeContains(self, o.val)) ELSE o

\* DateRange.index
Index(self, date) ==
    LET o == d2o(date)
    IN  IF IsOk(o) THEN RangeIndex(self, o.val) ELSE o

\* DateRange.count
Count(self, date) ==
    LET o == d2o(date)
    IN  IF IsOk(o) THEN Ok(RangeCount(self, o.val)) ELSE o

\* DateRange.__getitem__ with an integer
GetItem(self, idx) ==
    LET o == RangeItem(self, idx)
    IN  IF IsOk(o) THEN o2d(o.val) ELSE o

\* DateRange.__getitem__ with a slice
GetSlice(self, i, j, k) ==
    LET g == RangeSlice(self, i, j, k)
    IN  IF IsOk(g) THEN from_ordrange(g.val) ELSE g

\* an __eq__ that compares the stored fields
EqFields(self, other) == self = other

\* DateRange.__eq__ against another DateRange
Eq(self, other) == RangeEquals(self, other)

\* DateRange.__init__ past the conversion of start and stop
OfDates(d1, d2, step) ==
    IF ~IsOk(d1) THEN d1
    ELSE IF ~IsOk(d2) THEN d2
    ELSE New(d1.val, d2.val, step)

\* DateRange.__init__ with date-like start and stop
init(start, stop, step, today) ==
    OfDates(DateNew(start, today), DateNew(stop, today), step)

\* reversed(range): the terms from the last to the first
Reverse(s) == [n \in 1..Len(s) |-> s[Len(s) + 1 - n]]

\* DateRange.__reversed__, as list(reversed(r))
Reversed(self) == DatesOf(Reverse(RangeIter(self, self.start)))

\* a Date the range hands out, as a date-like argument
OwnDate(o) == IF IsOk(o) THEN Ok([kind |-> "Date", ord |-> o.val]) ELSE o

\* the keyword of replace that is left out
NoDate == [kind |-> "NoneType"]

\* kwargs[k] = given if given is not None else self.k
Kwarg(given, own) == IF given # NoDate THEN Ok(given) ELSE own

\* type(self)(**kwargs), once the three kwargs are read
ReplaceWith(start, stop, step, today) ==
    IF ~IsOk(start) THEN start
    ELSE IF ~IsOk(stop) THEN stop
    ELSE init(start.val, stop.val, step, today)

\* DateRange.replace
replace(self, start, stop, step, today) ==
    ReplaceWith(Kwarg(start, OwnDate(StartOf(self))),
                Kwarg(stop, OwnDate(StopOf(self))),
                IF ~step.none THEN step.n ELSE self.step,
                today)

-----------------------------------------------------------------------------
(* DateRange: text form *)

\* DateRange.full
full(step) ==
    IF step < 0 THEN New(MaxOrd, MinOrd, step) ELSE New(MinOrd, MaxOrd, step)

EMPTY_RANGE_STRING == <<"N", "O", "N", "E">>

FULL_RANGE_STRING == <<"A", "L", "L">>

\* DateRange.to_string with its default arguments
to_string(self, ypad) ==
    IF ~Bool(self) THEN Ok(EMPTY_RANGE_STRING)
    ELSE LET d1 == StartOf(self)
             d2 == StopOf(self)
         IN  IF ~IsOk(d1) THEN d1
             ELSE IF ~IsOk(d2) THEN d2
             ELSE Ok(<<"[">> \o DateStr(d1.val, ypad) \o <<":">> \o DateStr(d2.val, ypad)
                     \o (IF self.step # 1 THEN <<":">> \o IntStr(self.step) ELSE <<>>)
                     \o <<")">>)

\* has_marker, local to from_string
has_marker(p) ==
    \/ p = <<"%">>
    \/ Len(p) >= 2 /\ p[1] = "%" /\ p[2] \in {"+", "-"}

\* a marker whose offset is not read
OffsetIgnored(offset_str) == Ok(0)

\* the offset a marker carries: int(part[1:]), 0 for a bare marker
OffsetOf(offset_str) == IF offset_str # <<>> THEN PyInt(offset_str) ELSE Ok(0)

\* rel_to + offset, once the offset is read
Shifted(rel_to, offset) ==
    IF IsOk(offset) THEN DateAdd(rel_to, offset.val) ELSE offset

\* relative_to, local to from_string
relative_to(part, rel_to) == Shifted(rel_to, OffsetOf(Tail(part)))

\* the pair (d1, d2) of the two dates read, or the error raised on the way
Pair(d1, d2) ==
    IF ~IsOk(d1) THEN d1
    ELSE IF ~IsOk(d2) THEN d2
    ELSE Ok(<<d1.val, d2.val>>)

\* d2 = Date(parts[1]); d1 = relative_to(parts[0], d2)
MarkerFirst(part, d2) ==
    IF ~IsOk(d2) THEN d2 ELSE Pair(relative_to(part, d2.val), d2)

\* d1 = Date(parts[0]); d2 = relative_to(parts[1], d1)
MarkerSecond(d1, part) ==
    IF ~IsOk(d1) THEN d1 ELSE Pair(d1, relative_to(part, d1.val))

\* the start and the stop from_string reads from its first two parts
StartStop(parts, today) ==
    IF has_marker(parts[1])
    THEN MarkerFirst(parts[1], DateNew([kind |-> "str", text |-> parts[2]], today))
    ELSE IF has_marker(parts[2])
    THEN MarkerSecond(DateNew([kind |-> "str", text |-> parts[1]], today), parts[2])
    ELSE Pair(DateNew([kind |-> "str", text |-> parts[1]], today),
              DateNew([kind |-> "str", text |-> parts[2]], today))

\* cls(d1, d2, step), once the dates and the step are read
FromParts(dd, step) ==
    IF ~IsOk(dd) THEN dd
    ELSE IF ~IsOk(step) THEN step
    ELSE New(dd.val[1], dd.val[2], step.val)

\* d and d + 1, the bounds of the range a single date stands for
SingleDate(d) == IF IsOk(d) THEN Pair(d, DateAdd(d.val, 1)) ELSE d

\* DateRange.from_string past the split of the text at its colons
FromSplit(s, parts, today) ==
    IF Len(parts) = 1
    THEN FromParts(SingleDate(DateNew([kind |-> "str", text |-> s], today)), Ok(1))
    ELSE IF Len(parts) \in 2..3
    THEN FromParts(StartStop(parts, today),
                   IF Len(parts) = 3 THEN PyInt(parts[3]) ELSE Ok(1))
    ELSE Raise("ValueError")

\* DateRange.from_string past the removal of the brackets
FromBare(s, today) == FromSplit(s, Split(s, ":"), today)

\* DateRange.from_string
from_string(s0, today) ==
    IF s0 \in {FULL_RANGE_STRING, <<"F", "U", "L", "L">>} THEN full(1)
    ELSE IF s0 \in {EMPTY_RANGE_STRING, <<"E", "M", "P", "T", "Y">>} THEN empty
    ELSE FromBare(IF s0 # <<>> /\ s0[1] = "[" /\ s0[Len(s0)] = ")"
                  THEN SubSeq(s0, 2, Len(s0) - 1) ELSE s0, today)

-----------------------------------------------------------------------------
(* misc.egcd *)

RECURSIVE EgcdLoop(_, _, _, _, _, _)
EgcdLoop(a, b, x, y, u, v) ==
    IF a = 0
    THEN <<b, x, y>>
    ELSE LET q == FloorDiv(b, a)
             m == x - u * q
             n == y - v * q
         IN  EgcdLoop(PyMod(b, a), a, u, v, m, n)

\* an egcd whose coefficients start the other way round
egcdSwapped(a, b) == EgcdLoop(a, b, 1, 0, 0, 1)

egcd(a, b) == EgcdLoop(a, b, 0, 1, 1, 0)

-----------------------------------------------------------------------------
(* DateRange.intersection *)

\* "return empty()": empty is already an instance, and calling it raises
EmptyCall == Raise("TypeError")

\* the tail of intersection, once both operands are known to be non-empty
\* and their starts are aligned on the gcd
IntersectionCRT(self, other, step, interval0, interval1, x, sign, offset) ==
    LET crt == PyMod(offset * interval0 * PyMod(x, interval1), step)
        gap == offset - crt
        filler == IF (sign > 0 /\ offset > 0) \/ (sign < 0 /\ offset < 0)
                  THEN IF PyMod(gap, step) = 0
                       THEN gap
                       ELSE (FloorDiv(gap, step) + 1) * step
                  ELSE 0
        s1 == DateAdd(self.start, crt)
        s2 == IF IsOk(s1) THEN DateAdd(s1.val, filler) ELSE s1
        p0 == StopOf(self)
        p1 == StopOf(other)
    IN  IF ~IsOk(s2) THEN s2
        ELSE IF ~IsOk(p0) THEN p0
        ELSE IF ~IsOk(p1) THEN p1
        ELSE New(s2.val,
                 IF sign > 0 THEN Min2(p0.val, p1.val) ELSE Max2(p0.val, p1.val),
                 step)

\* intersection past its check of the signs of the two steps
SameDirection(self, other) ==
    IF ~Bool(self) \/ ~Bool(other)
    THEN EmptyCall
    ELSE LET step0 == Abs(self.step)
             step1 == Abs(other.step)
             sign == IF self.step > 0 THEN 1 ELSE -1
             offset == DateSub(other.start, self.start)
             e == egcd(step0, step1)
             gcd == e[1]
             interval0 == step0 \div gcd
             interval1 == step1 \div gcd
             step == interval0 * interval1 * gcd * sign
         IN  IF PyMod(offset, gcd) # 0
             THEN EmptyCall
             ELSE IntersectionCRT(self, other, step, interval0, interval1,
                                  e[2], sign, offset)

\* an intersection that does not compare the signs of the steps
intersectionUnchecked(self, other) == SameDirection(self, other)

\* DateRange.intersection; the message of the ValueError is built with %r,
\* whose own failure on a start or stop outside the window is a ValueError too
intersection(self, other) ==
    IF (self.step > 0) # (other.step > 0)
    THEN Raise("ValueError")
    ELSE SameDirection(self, other)

-----------------------------------------------------------------------------
(* The part-whole relations of two DateRanges: is_part, is_proper_part,    *)
(* overlaps, underlaps, is_adjacent, union (|) and difference (-).  They   *)
(* are called by src/tests/test_range.py and are not defined in            *)
(* src/yyyymmdd/range.py; they are written here from section 4.3 of the    *)
(* specification and from the outcomes the tests expect.                   *)

\* the least and the greatest date of a non-empty range
First(g) ==
    IF g.step > 0 THEN g.start ELSE g.start + (RangeLen(g) - 1) * g.step

Last(g) ==
    IF g.step > 0 THEN g.start + (RangeLen(g) - 1) * g.step ELSE g.start

\* an overlaps that compares the ends of the two ranges alone
overlapsSpans(self, other) ==
    Ok(/\ Bool(self)
       /\ Bool(other)
       /\ Max2(First(self), First(other)) <= Min2(Last(self), Last(other)))

\* overlaps: the two progressions are aligned on the gcd of their steps, and
\* their first common term past both least dates is within both ranges; no
\* range is built, and neither the steps nor the directions have to agree
overlaps(self, other) ==
    IF ~Bool(self) \/ ~Bool(other) THEN Ok(FALSE)
    ELSE LET step0 == Abs(self.step)
             step1 == Abs(other.step)
             e == egcd(step0, step1)
             gcd == e[1]
             offset == First(other) - First(self)
             interval1 == step1 \div gcd
             lcm == step0 * interval1
             k == PyMod((offset \div gcd) * e[2], interval1)
             common == First(self) + k * step0
             least == Max2(First(self), First(other))
             ahead == IF common >= least THEN 0
                      ELSE -FloorDiv(common - least, lcm)
         IN  IF PyMod(offset, gcd) # 0 THEN Ok(FALSE)
             ELSE Ok(common + ahead * lcm <= Min2(Last(self), Last(other)))

\* a rule that supports every pair of steps
UnsupportedNever(self, other) == FALSE

\* the unsupported-relation rule: the other relations are decided for unit
\* steps only (test_mereology_errors expects NotImplementedError of a pair
\* of ranges that both have step 2 and the same first date)
Unsupported(self, other) == Abs(self.step) # 1 \/ Abs(other.step) # 1

\* the dates of a range of step 1 or -1, as the interval [SpanLo, SpanHi)
SpanLo(g) == IF g.step > 0 THEN g.start ELSE g.stop + 1

SpanHi(g) == IF g.step > 0 THEN g.stop ELSE g.start + 1

\* an is_part that compares the stored bounds, empty or not
IsPartBounds(self, other) ==
    SpanLo(other) <= SpanLo(self) /\ SpanHi(self) <= SpanHi(other)

\* is_part past the unsupported-relation rule
IsPart(self, other) ==
    \/ ~Bool(self)
    \/ SpanLo(other) <= SpanLo(self) /\ SpanHi(self) <= SpanHi(other)

is_part(self, other) ==
    IF Unsupported(self, other) THEN Raise("NotImplementedError")
    ELSE Ok(IsPart(self, other))

\* is_proper_part: a part that is not equal (as a sequence)
is_proper_part(self, other) ==
    IF Unsupported(self, other) THEN Raise("NotImplementedError")
    ELSE Ok(IsPart(self, other) /\ ~Eq(self, other))

\* is_adjacent: one range ends where the other begins, under a shared step
is_adjacent(self, other) ==
    IF Unsupported(self, other) THEN Raise("NotImplementedError")
    ELSE Ok(/\ self.step = other.step
            /\ Bool(self)
            /\ Bool(other)
            /\ SpanHi(self) = SpanLo(other) \/ SpanHi(other) = SpanLo(self))

\* underlaps: the outcomes section 4.3 allows.  It holds of ranges whose
\* spans intersect or touch; of two ranges apart it is left open (both are
\* parts of the full range, yet their spans neither intersect nor touch)
underlaps(self, other) ==
    IF Unsupported(self, other) THEN {Raise("NotImplementedError")}
    ELSE IF overlaps(self, other).val \/ is_adjacent(self, other).val
    THEN {Ok(TRUE)}
    ELSE {Ok(TRUE), Ok(FALSE)}

\* the range of the dates lo .. hi - 1, in the direction of self
Piece(self, lo, hi) ==
    IF self.step > 0 THEN Range(lo, hi, 1) ELSE Range(hi - 1, lo - 1, -1)

\* union: the single range of two overlapping or adjacent ranges of one
\* direction; ValueError for opposite directions and for ranges apart
union(self, other) ==
    IF Unsupported(self, other) THEN Raise("NotImplementedError")
    ELSE IF (self.step > 0) # (other.step > 0) THEN Raise("ValueError")
    ELSE IF overlaps(self, other).val \/ is_adjacent(self, other).val
    THEN Ok(Piece(self, Min2(SpanLo(self), SpanLo(other)),
                  Max2(SpanHi(self), SpanHi(other))))
    ELSE Raise("ValueError")

\* a difference that loses what is left of self after other
RightNone(self, other) == <<>>

\* the remainders of self before and after other, once they overlap
Left(self, other) ==
    IF SpanLo(self) < SpanLo(other)
    THEN <<Piece(self, SpanLo(self), SpanLo(other))>>
    ELSE <<>>

Right(self, other) ==
    IF SpanHi(other) < SpanHi(self)
    THEN <<Piece(self, SpanHi(other), SpanHi(self))>>
    ELSE <<>>

\* difference: the list of the remainders of self, the left one first
difference(self, other) ==
    IF Unsupported(self, other) THEN Raise("NotImplementedError")
    ELSE IF IsPart(self, other) THEN Ok(<<>>)
    ELSE IF ~overlaps(self, other).val THEN Ok(<<self>>)
    ELSE Ok(Left(self, other) \o Right(self, other))

-----------------------------------------------------------------------------
(* tz: the ambient timezone, and the day "today" is in it *)

\* TIMEZONE = None, the default: the local zone of the machine
NoTimezone == [kind |-> "None"]

\* a datetime.tzinfo, by the hours its wall clock is ahead of UTC
Tzinfo(name, ahead) == [kind |-> "tzinfo", name |-> name, ahead |-> ahead]

\* the zones pytz.timezone knows, here one at UTC, one far east, one far west
Zones ==
    {Tzinfo("UTC", 0), Tzinfo("Pacific/Kiritimati", 14), Tzinfo("Pacific/Niue", -11)}

\* pytz.timezone(name): the zone of that name, or UnknownTimeZoneError
pytz_timezone(name) ==
    IF \E z \in Zones : z.name = name
    THEN Ok(CHOOSE z \in Zones : z.name = name)
    ELSE Raise("UnknownTimeZoneError")

\* tz.get_timezone
get_timezone(tzglobal) == tzglobal

\* a set_timezone that keeps the zone in effect when given None
set_timezoneKeep(tz, tzglobal) ==
    LET conv == IF tz.kind = "str" THEN pytz_timezone(tz.name) ELSE Ok(tz)
    IN  IF ~IsOk(conv) THEN [out |-> conv, tz |-> tzglobal]
        ELSE IF tz.kind = "None" THEN [out |-> Ok(tzglobal), tz |-> tzglobal]
        ELSE [out |-> Ok(tzglobal), tz |-> conv.val]

\* tz.set_timezone(tz) with TIMEZONE = tzglobal: the outcome of the call and
\* the TIMEZONE it leaves
set_timezone(tz, tzglobal) ==
    LET conv == IF tz.kind = "str" THEN pytz_timezone(tz.name) ELSE Ok(tz)
    IN  IF ~IsOk(conv) THEN [out |-> conv, tz |-> tzglobal]
        ELSE [out |-> Ok(tzglobal), tz |-> conv.val]

\* date._today at an instant of the clock: the UTC day and hour, and the
\* hours the local zone of the machine is ahead of UTC
_today(tzglobal, instant) ==
    LET ahead == IF tzglobal.kind = "None" THEN instant.local ELSE tzglobal.ahead
    IN  instant.day + FloorDiv(instant.hour + ahead, 24)

-----------------------------------------------------------------------------
(* The state machine: one DateRange r under a sequence of calls *)

Steps == (-MaxStep..MaxStep) \ {0}

\* the ranges DateRange(start, stop, step) builds from dates of the window
Constructed == {Range(a, b, s) : a \in Domain, b \in Domain, s \in Steps}

NoArg == [kind |-> "none"]

Indexes == -MaxIdx..MaxIdx

SliceBounds == {None} \cup {Some(n) : n \in Indexes}

SliceSteps == -MaxSliceStep..MaxSliceStep

\* int(str(d)) for the date with ordinal d: the integer yyyymmdd
YmdInt(d) == LET t == OrdYmd(d) IN t[1] * 10000 + t[2] * 100 + t[3]

\* the textual date forms given as arguments
DateTexts ==
    {DateStr(d, TRUE) : d \in Domain}
    \cup {DateStrDashed(d, TRUE) : d \in Domain}
    \cup {<<"M", "I", "N">>, <<"M", "A", "X">>, <<"t", "o", "d", "a", "y">>, <<"+", "1">>}

\* the date-like values given as arguments
DateLikes ==
    {[kind |-> k, ord |-> d] : k \in DateObjects, d \in Domain}
    \cup {[kind |-> "str", text |-> t] : t \in DateTexts}
    \cup {[kind |-> "int", n |-> YmdInt(d)] : d \in Domain}

Init ==
    /\ r \in Constructed
    /\ op = "new"
    /\ arg = NoArg
    /\ res = Ok(NoVal)
    /\ TIMEZONE = NoTimezone

\* len(r)
LenCall ==
    /\ op = "new"
    /\ op' = "len"
    /\ arg' = NoArg
    /\ res' = Ok(DateRangeLen(r))
    /\ UNCHANGED <<r, TIMEZONE>>

\* r[i]
GetItemCall ==
    /\ op = "new"
    /\ \E i \in Indexes :
           /\ op' = "getitem"
           /\ arg' = [kind |-> "index", i |-> i]
           /\ res' = GetItem(r, i)
    /\ UNCHANGED <<r, TIMEZONE>>

\* a slice that replaces the internals of r itself
SliceInPlace ==
    /\ op = "new"
    /\ \E i \in SliceBounds, j \in SliceBounds, k \in SliceSteps :
           /\ op' = "slice"
           /\ arg' = [kind |-> "slice", i |-> i, j |-> j, k |-> k]
           /\ res' = GetSlice(r, i, j, k)
           /\ r' = IF IsOk(GetSlice(r, i, j, k)) THEN GetSlice(r, i, j, k).val ELSE r
    /\ UNCHANGED TIMEZONE

\* r[i:j:k]
SliceCall ==
    /\ op = "new"
    /\ \E i \in SliceBounds, j \in SliceBounds, k \in SliceSteps :
           /\ op' = "slice"
           /\ arg' = [kind |-> "slice", i |-> i, j |-> j, k |-> k]
           /\ res' = GetSlice(r, i, j, k)
    /\ UNCHANGED <<r, TIMEZONE>>

\* d in r
ContainsCall ==
    /\ op = "new"
    /\ \E d \in DateLikes :
           /\ op' = "contains"
           /\ arg' = d
           /\ res' = Contains(r, d)
    /\ UNCHANGED <<r, TIMEZONE>>

\* r.index(d)
IndexCall ==
    /\ op = "new"
    /\ \E d \in DateLikes :
           /\ op' = "index"
           /\ arg' = d
           /\ res' = Index(r, d)
    /\ UNCHANGED <<r, TIMEZONE>>

\* r.count(d)
CountCall ==
    /\ op = "new"
    /\ \E d \in DateLikes :
           /\ op' = "count"
           /\ arg' = d
           /\ res' = Count(r, d)
    /\ UNCHANGED <<r, TIMEZONE>>

\* r == other
EqCall ==
    /\ op = "new"
    /\ \E other \in Constructed :
           /\ op' = "eq"
           /\ arg' = [kind |-> "range", val |-> other]
           /\ res' = Ok(Eq(r, other))
    /\ UNCHANGED <<r, TIMEZONE>>

\* r.intersection(other), r & other
Intersection ==
    /\ op = "new"
    /\ \E other \in Constructed :
           /\ op' = "intersection"
           /\ arg' = [kind |-> "range", val |-> other]
           /\ res' = intersection(r, other)
    /\ UNCHANGED <<r, TIMEZONE>>

\* r.to_string(), str(r); the C library decides how strftime writes the year
ToStringCall ==
    /\ op = "new"
    /\ \E ypad \in BOOLEAN :
           /\ op' = "to_string"
           /\ arg' = [kind |-> "fmt", ypad |-> ypad]
           /\ res' = to_string(r, ypad)
    /\ UNCHANGED <<r, TIMEZONE>>

\* DateRange.from_string(s) of the text r.to_string() has just returned,
\* on a day today of the clock
FromStringCall ==
    /\ op = "to_string"
    /\ IsOk(res)
    /\ \E today \in Domain :
           /\ op' = "from_string"
           /\ arg' = [kind |-> "str", text |-> res.val, today |-> today]
           /\ res' = from_string(res.val, today)
    /\ UNCHANGED <<r, TIMEZONE>>

\* the derived ranges the model goes on with: repeated slicing multiplies the
\* step and moves the bounds of an empty range without limit
Followed(g) ==
    /\ g.start \in (MinOrd - MaxStep)..(MaxOrd + MaxStep)
    /\ g.stop \in (MinOrd - MaxStep)..(MaxOrd + MaxStep)
    /\ Abs(g.step) <= MaxStep * MaxSliceStep

\* the caller drops the outcome of the last call and keeps r
Discard ==
    /\ op # "new"
    /\ op' = "new"
    /\ arg' = NoArg
    /\ res' = Ok(NoVal)
    /\ UNCHANGED <<r, TIMEZONE>>

\* the caller goes on with the DateRange the last call returned
\* (r = r & other, r = r[i:j:k], r = DateRange.from_string(str(r)),
\* r = r | other)
Rebind ==
    /\ op \in {"intersection", "slice", "from_string", "union"}
    /\ IsOk(res)
    /\ Followed(res.val)
    /\ r' = res.val
    /\ op' = "new"
    /\ arg' = NoArg
    /\ res' = Ok(NoVal)
    /\ UNCHANGED TIMEZONE

Next ==
    \/ LenCall
    \/ GetItemCall
    \/ SliceCall
    \/ ContainsCall
    \/ IndexCall
    \/ CountCall
    \/ EqCall
    \/ Intersection
    \/ ToStringCall
    \/ FromStringCall
    \/ Discard
    \/ Rebind

Spec == Init /\ [][Next]_vars

-----------------------------------------------------------------------------
(* The state machine of one instance under every call that reads it *)

\* list(r)
IterCall ==
    /\ op = "new"
    /\ op' = "iter"
    /\ arg' = NoArg
    /\ res' = Iter(r)
    /\ UNCHANGED <<r, TIMEZONE>>

\* list(reversed(r))
ReversedCall ==
    /\ op = "new"
    /\ op' = "reversed"
    /\ arg' = NoArg
    /\ res' = Reversed(r)
    /\ UNCHANGED <<r, TIMEZONE>>

\* the start and stop keywords of replace: None or a Date
ReplaceDates == {NoDate} \cup {[kind |-> "Date", ord |-> d] : d \in Domain}

\* the step keyword of replace: None or an integer
ReplaceSteps == {None} \cup {Some(s) : s \in -MaxStep..MaxStep}

\* r.replace(start=.., stop=.., step=..)
ReplaceCall ==
    /\ op = "new"
    /\ \E start \in ReplaceDates, stop \in ReplaceDates, step \in ReplaceSteps :
           /\ op' = "replace"
           /\ arg' = [kind |-> "kwargs", start |-> start, stop |-> stop, step |-> step]
           /\ res' = replace(r, start, stop, step, MinOrd)
    /\ UNCHANGED <<r, TIMEZONE>>

\* other.intersection(r), other & r
Intersected ==
    /\ op = "new"
    /\ \E other \in Constructed :
           /\ op' = "intersected"
           /\ arg' = [kind |-> "range", val |-> other]
           /\ res' = intersection(other, r)
    /\ UNCHANGED <<r, TIMEZONE>>

FrameNext ==
    \/ LenCall
    \/ GetItemCall
    \/ SliceCall
    \/ IterCall
    \/ ReversedCall
    \/ ContainsCall
    \/ IndexCall
    \/ CountCall
    \/ ToStringCall
    \/ ReplaceCall
    \/ Intersection
    \/ Intersected
    \/ Discard

FrameSpec == Init /\ [][FrameNext]_vars

-----------------------------------------------------------------------------
(* The state machine of the part-whole relations: r against a second range *)

\* r.is_part(other)
IsPartCall ==
    /\ op = "new"
    /\ \E other \in Constructed :
           /\ op' = "is_part"
           /\ arg' = [kind |-> "range", val |-> other]
           /\ res' = is_part(r, other)
    /\ UNCHANGED <<r, TIMEZONE>>

\* r.is_proper_part(other)
IsProperPartCall ==
    /\ op = "new"
    /\ \E other \in Constructed :
           /\ op' = "is_proper_part"
           /\ arg' = [kind |-> "range", val |-> other]
           /\ res' = is_proper_part(r, other)
    /\ UNCHANGED <<r, TIMEZONE>>

\* r.overlaps(other)
OverlapsCall ==
    /\ op = "new"
    /\ \E other \in Constructed :
           /\ op' = "overlaps"
           /\ arg' = [kind |-> "range", val |-> other]
           /\ res' = overlaps(r, other)
    /\ UNCHANGED <<r, TIMEZONE>>

\* r.underlaps(other)
UnderlapsCall ==
    /\ op = "new"
    /\ \E other \in Constructed :
           /\ op' = "underlaps"
           /\ arg' = [kind |-> "range", val |-> other]
           /\ res' \in underlaps(r, other)
    /\ UNCHANGED <<r, TIMEZONE>>

\* r.is_adjacent(other)
IsAdjacentCall ==
    /\ op = "new"
    /\ \E other \in Constructed :
           /\ op' = "is_adjacent"
           /\ arg' = [kind |-> "range", val |-> other]
           /\ res' = is_adjacent(r, other)
    /\ UNCHANGED <<r, TIMEZONE>>

\* r.union(other), r | other
UnionCall ==
    /\ op = "new"
    /\ \E other \in Constructed :
           /\ op' = "union"
           /\ arg' = [kind |-> "range", val |-> other]
           /\ res' = union(r, other)
    /\ UNCHANGED <<r, TIMEZONE>>

\* r.difference(other), r - other
DifferenceCall ==
    /\ op = "new"
    /\ \E other \in Constructed :
           /\ op' = "difference"
           /\ arg' = [kind |-> "range", val |-> other]
           /\ res' = difference(r, other)
    /\ UNCHANGED <<r, TIMEZONE>>

MereologyNext ==
    \/ IsPartCall
    \/ IsProperPartCall
    \/ OverlapsCall
    \/ UnderlapsCall
    \/ IsAdjacentCall
    \/ UnionCall
    \/ DifferenceCall
    \/ Discard
    \/ Rebind

MereologySpec == Init /\ [][MereologyNext]_vars

-----------------------------------------------------------------------------
(* The state machine of the calls that need no instance: the timezone      *)
(* functions, DateRange.from_string of a text, DateRange(start, stop,      *)
(* step) of date-like bounds, DateRange.full                               *)

\* largest k of a relative marker %+k, %-k
MaxOffset == 2

\* the arguments of set_timezone: None, a tzinfo, the name of a zone
TzArgs ==
    {NoTimezone}
    \cup Zones
    \cup {[kind |-> "str", name |-> z.name] : z \in Zones}
    \cup {[kind |-> "str", name |-> "Nowhere"]}

\* the hours of the day a call is made at, and the hours the local zone of
\* the machine is ahead of UTC
Hours == {1, 13}

LocalAhead == {0, 14}

\* the instants of the calls: every zone is then at a day of the window
Instants ==
    {[day |-> d, hour |-> h, local |-> l] :
        d \in (MinOrd + 1)..(MaxOrd - 1), h \in Hours, l \in LocalAhead}

\* the fields of a range text: a date, absolute or relative, or a marker
DateToken(t) == [kind |-> "date", text |-> t]

Marker(sign, k) == [kind |-> "marker", sign |-> sign, k |-> k]

Tokens ==
    {DateToken(DateStr(d, TRUE)) : d \in Domain}
    \cup {DateToken(<<"t", "o", "d", "a", "y">>), DateToken(<<"-", "1">>),
          DateToken(<<"M", "A", "X">>)}
    \cup {Marker("", 0)}
    \cup {Marker(s, k) : s \in {"+", "-"}, k \in 0..MaxOffset}

TokenText(t) ==
    IF t.kind = "date" THEN t.text
    ELSE IF t.sign = "" THEN <<"%">>
    ELSE <<"%", t.sign>> \o NatStr(t.k)

\* the optional third field
StepFields ==
    {[given |-> FALSE, n |-> 1]} \cup {[given |-> TRUE, n |-> s] : s \in Steps}

\* the text START:STOP or START:STOP:STEP, in brackets or not
RangeText(x, y, step, brackets) ==
    LET t == TokenText(x) \o <<":">> \o TokenText(y)
                 \o (IF step.given THEN <<":">> \o IntStr(step.n) ELSE <<>>)
    IN  IF brackets THEN <<"[">> \o t \o <<")">> ELSE t

\* the raw bounds given to the constructor
RawBounds ==
    {[kind |-> "Date", ord |-> d] : d \in Domain}
    \cup {[kind |-> "str", text |-> <<"t", "o", "d", "a", "y">>],
          [kind |-> "int", n |-> -1],
          [kind |-> "int", n |-> YmdInt(MinOrd + 1)]}

ClassInit ==
    /\ r = empty.val
    /\ op = "new"
    /\ arg = NoArg
    /\ res = Ok(NoVal)
    /\ TIMEZONE = NoTimezone

\* set_timezone(tz)
SetTimezoneCall ==
    /\ op = "new"
    /\ \E tz \in TzArgs :
           /\ op' = "set_timezone"
           /\ arg' = tz
           /\ res' = set_timezone(tz, TIMEZONE).out
           /\ TIMEZONE' = set_timezone(tz, TIMEZONE).tz
    /\ UNCHANGED r

\* set_timezone_utc()
SetTimezoneUtcCall ==
    /\ op = "new"
    /\ op' = "set_timezone_utc"
    /\ arg' = NoArg
    /\ res' = set_timezone([kind |-> "str", name |-> "UTC"], TIMEZONE).out
    /\ TIMEZONE' = set_timezone([kind |-> "str", name |-> "UTC"], TIMEZONE).tz
    /\ UNCHANGED r

\* get_timezone()
GetTimezoneCall ==
    /\ op = "new"
    /\ op' = "get_timezone"
    /\ arg' = NoArg
    /\ res' = Ok(get_timezone(TIMEZONE))
    /\ UNCHANGED <<r, TIMEZONE>>

\* DateRange.from_string(text) of a text START:STOP[:STEP], at an instant
ParseRangeCall ==
    /\ op = "new"
    /\ \E x \in Tokens, y \in Tokens, step \in StepFields,
          brackets \in BOOLEAN, instant \in Instants :
           /\ op' = "from_string"
           /\ arg' = [kind |-> "text", text |-> RangeText(x, y, step, brackets),
                      x |-> x, y |-> y, step |-> step, instant |-> instant]
           /\ res' = from_string(RangeText(x, y, step, brackets),
                                 _today(TIMEZONE, instant))
    /\ UNCHANGED <<r, TIMEZONE>>

\* DateRange.from_string(text) of the text of a single date, at an instant
ParseDateCall ==
    /\ op = "new"
    /\ \E x \in Tokens, brackets \in BOOLEAN, instant \in Instants :
           LET t == IF brackets THEN <<"[">> \o TokenText(x) \o <<")">>
                    ELSE TokenText(x)
           IN  /\ op' = "from_string"
               /\ arg' = [kind |-> "date", text |-> t, x |-> x,
                          instant |-> instant]
               /\ res' = from_string(t, _today(TIMEZONE, instant))
    /\ UNCHANGED <<r, TIMEZONE>>

\* DateRange(start, stop, step) of raw bounds, at an instant
NewCall ==
    /\ op = "new"
    /\ \E start \in RawBounds, stop \in RawBounds, step \in -MaxStep..MaxStep,
          instant \in Instants :
           /\ op' = "init"
           /\ arg' = [kind |-> "bounds", start |-> start, stop |-> stop,
                      step |-> step, instant |-> instant]
           /\ res' = init(start, stop, step, _today(TIMEZONE, instant))
    /\ UNCHANGED <<r, TIMEZONE>>

\* DateRange.full(step)
FullCall ==
    /\ op = "new"
    /\ \E step \in -MaxStep..MaxStep :
           /\ op' = "full"
           /\ arg' = [kind |-> "step", step |-> step]
           /\ res' = full(step)
    /\ UNCHANGED <<r, TIMEZONE>>

\* the text form alone, the timezone left at its default
CodecNext ==
    \/ ParseRangeCall
    \/ ParseDateCall
    \/ FullCall
    \/ Discard

CodecSpec == ClassInit /\ [][CodecNext]_vars

\* a few instances to call to_string, slicing and intersection on
Instances ==
    {Range(MinOrd, MaxOrd, 1), Range(MaxOrd, MinOrd, -2), Range(MinOrd + 1, MaxOrd, 3)}

TzInit ==
    /\ r \in Instances
    /\ op = "new"
    /\ arg = NoArg
    /\ res = Ok(NoVal)
    /\ TIMEZONE = NoTimezone

\* the timezone functions among the calls that build and use a DateRange
TzNext ==
    \/ SetTimezoneCall
    \/ SetTimezoneUtcCall
    \/ GetTimezoneCall
    \/ ParseDateCall
    \/ NewCall
    \/ ToStringCall
    \/ SliceCall
    \/ Intersection
    \/ Discard

TzSpec == TzInit /\ [][TzNext]_vars

-----------------------------------------------------------------------------
(* The state machine of misc.egcd: its loop, one iteration a step *)

MaxArg == 12

\* the locals a, b, x, y, u, v of egcd while its loop runs
Running(a, b, x, y, u, v) ==
    [kind |-> "running", val |-> <<a, b, x, y, u, v>>]

\* egcd(a, b) is entered: x, y, u, v = 0, 1, 1, 0
EgcdCall ==
    /\ op = "new"
    /\ \E a \in 1..MaxArg, b \in 1..MaxArg :
           /\ op' = "egcd"
           /\ arg' = [kind |-> "pair", a |-> a, b |-> b]
           /\ res' = Running(a, b, 0, 1, 1, 0)
    /\ UNCHANGED <<r, TIMEZONE>>

\* one iteration of "while a"
EgcdStep ==
    /\ op = "egcd"
    /\ res.kind = "running"
    /\ res.val[1] # 0
    /\ res' = Running(PyMod(res.val[2], res.val[1]),
                      res.val[1],
                      res.val[5],
                      res.val[6],
                      res.val[3] - res.val[5] * FloorDiv(res.val[2], res.val[1]),
                      res.val[4] - res.val[6] * FloorDiv(res.val[2], res.val[1]))
    /\ UNCHANGED <<r, op, arg, TIMEZONE>>

\* return b, x, y
EgcdReturn ==
    /\ op = "egcd"
    /\ res.kind = "running"
    /\ res.val[1] = 0
    /\ res' = Ok(<<res.val[2], res.val[3], res.val[4]>>)
    /\ UNCHANGED <<r, op, arg, TIMEZONE>>

\* the caller has the triple and goes on
EgcdDone ==
    /\ op = "egcd"
    /\ IsOk(res)
    /\ op' = "new"
    /\ arg' = NoArg
    /\ res' = Ok(NoVal)
    /\ UNCHANGED <<r, TIMEZONE>>

EgcdNext ==
    \/ EgcdCall
    \/ EgcdStep
    \/ EgcdReturn
    \/ EgcdDone

\* a call that has started goes on running: nothing else stops the loop
EgcdSpec ==
    /\ ClassInit
    /\ [][EgcdNext]_vars
    /\ WF_vars(EgcdStep)
    /\ WF_vars(EgcdReturn)

-----------------------------------------------------------------------------
(* What the claims are stated in: enumeration, as list(r) and set(r) *)

\* list(r) as ordinals
ListOf(g) == RangeIter(g, g.start)

\* set(r)
SetOf(g) == {ListOf(g)[n] : n \in 1..Len(ListOf(g))}

SameSign(g, h) == (g.step > 0) = (h.step > 0)

-----------------------------------------------------------------------------
(* C1 - C3: intersection *)

\* C1: for every pair of DateRanges whose steps have the same sign,
\* r.intersection(other) returns a DateRange whose set of dates is exactly
\* set(r) & set(other).
C1_IntersectionIsSetIntersection ==
    (op = "intersection" /\ SameSign(r, arg.val))
        => /\ IsOk(res)
           /\ SetOf(res.val) = SetOf(r) \cap SetOf(arg.val)

\* C2: for every pair of same-direction DateRanges with no date in common
\* (here: both non-empty), intersection returns an empty DateRange and does
\* not raise.
C2_DisjointGivesEmpty ==
    (/\ op = "intersection"
     /\ SameSign(r, arg.val)
     /\ SetOf(r) # {}
     /\ SetOf(arg.val) # {}
     /\ SetOf(r) \cap SetOf(arg.val) = {})
        => /\ IsOk(res)
           /\ DateRangeLen(res.val) = 0

\* C3: if either operand of intersection is an empty DateRange (the steps
\* having the same sign), intersection returns an empty DateRange.
C3_EmptyOperandGivesEmpty ==
    (/\ op = "intersection"
     /\ SameSign(r, arg.val)
     /\ (SetOf(r) = {} \/ SetOf(arg.val) = {}))
        => /\ IsOk(res)
           /\ DateRangeLen(res.val) = 0

-----------------------------------------------------------------------------
(* C4: equality *)

\* C4: r1 == r2 iff list(r1) == list(r2), whatever the stored stop and step:
\* all empty ranges are equal, and so are all one-element ranges holding the
\* same date.
C4_EqIsSequenceEquality ==
    op = "eq" => res = Ok(ListOf(r) = ListOf(arg.val))

\* two one-element ranges with different stored stop and step compare equal
C4_Witness ==
    /\ op = "eq"
    /\ res = Ok(TRUE)
    /\ Len(ListOf(r)) = 1
    /\ r.stop # arg.val.stop
    /\ r.step # arg.val.step

-----------------------------------------------------------------------------
(* C5: the text form *)

\* C5: for every DateRange r (also one obtained by slicing or intersection),
\* DateRange.from_string(r.to_string()) succeeds and equals r.
C5_RoundTrip ==
    /\ op = "to_string" => IsOk(res)
    /\ op = "from_string" => (IsOk(res) /\ Eq(res.val, r))

-----------------------------------------------------------------------------
(* C6: length *)

\* the ceiling of n / d, d # 0: the least integer q with q * d >= n (d > 0)
CeilDiv(n, d) ==
    LET a == IF d > 0 THEN n ELSE -n
        b == Abs(d)
    IN  CHOOSE q \in -Abs(n)..Abs(n) : q * b >= a /\ (q - 1) * b < a

\* C6: len(DateRange(start, stop, step)) = max(0, ceil((stop - start) / step)),
\* never negative, for positive and for negative steps.
C6_LenIsCeiling ==
    op = "len"
        => /\ IsOk(res)
           /\ res.val = Max2(0, CeilDiv(r.stop - r.start, r.step))
           /\ res.val >= 0
           /\ res.val = Len(ListOf(r))

\* a backward range whose span is no multiple of its step
C6_Witness ==
    /\ op = "len"
    /\ r.step < -1
    /\ (r.start - r.stop) % (-r.step) # 0
    /\ res = Ok(2)

-----------------------------------------------------------------------------
(* C7: integer indexing *)

\* L[i] of a Python list, -len(L) <= i < len(L)
ListItem(L, i) == IF i < 0 THEN L[Len(L) + i + 1] ELSE L[i + 1]

\* C7: r[i] == list(r)[i] for -len(r) <= i < len(r), and r[i] raises
\* IndexError for every other integer i.
C7_GetItemIsListItem ==
    op = "getitem"
        => LET L == ListOf(r)
           IN  IF -Len(L) <= arg.i /\ arg.i < Len(L)
               THEN res = Ok(ListItem(L, arg.i))
               ELSE res.kind = "IndexError"

\* a negative index that is not the last element
C7_Witness ==
    /\ op = "getitem"
    /\ arg.i < -1
    /\ IsOk(res)
    /\ res.val # r.start

-----------------------------------------------------------------------------
(* C8: membership *)

Positions(L, x) == {n \in 1..Len(L) : L[n] = x}

\* C8: for a date d, (d in r) iff d occurs in list(r); r.count(d) is 1 or
\* 0 accordingly; r.index(d) is the position of d in list(r) and raises
\* ValueError when d is not in r.
C8_MembershipIsEnumeration ==
    (op \in {"contains", "index", "count"} /\ arg.kind \in {"Date", "date"})
        => LET P == Positions(ListOf(r), arg.ord)
           IN  /\ op = "contains" => res = Ok(P # {})
               /\ op = "count" => res = Ok(Cardinality(P))
               /\ op = "count" => res.val \in {0, 1}
               /\ op = "index" =>
                      IF P = {} THEN res.kind = "ValueError"
                      ELSE res = Ok((CHOOSE n \in P : \A m \in P : n <= m) - 1)

\* the index of a date that is neither first nor last in a backward range
C8_Witness ==
    /\ op = "index"
    /\ arg.kind = "date"
    /\ r.step < 0
    /\ res = Ok(1)
    /\ Len(ListOf(r)) >= 3

-----------------------------------------------------------------------------
(* C9: slicing *)

\* the positions (from 0) that L[i:j:k] takes of a list of n elements, k # 0:
\* negative bounds count from the end, bounds beyond an end are reduced to
\* it, omitted bounds are the ends in the direction of k
RECURSIVE Walk(_, _, _)
Walk(from, to, k) ==
    IF (k > 0 /\ from < to) \/ (k < 0 /\ from > to)
    THEN <<from>> \o Walk(from + k, to, k)
    ELSE <<>>

Clamp(x, lo, hi) == IF x < lo THEN lo ELSE IF x > hi THEN hi ELSE x

SlicePositions(n, i, j, k) ==
    LET norm(x) == IF x.n < 0 THEN x.n + n ELSE x.n
        first == IF k > 0 THEN (IF i.none THEN 0 ELSE Clamp(norm(i), 0, n))
                          ELSE (IF i.none THEN n - 1 ELSE Clamp(norm(i), -1, n - 1))
        last == IF k > 0 THEN (IF j.none THEN n ELSE Clamp(norm(j), 0, n))
                         ELSE (IF j.none THEN -1 ELSE Clamp(norm(j), -1, n - 1))
    IN  Walk(first, last, k)

\* list(r)[i:j:k]
ListSlice(L, i, j, k) ==
    LET P == SlicePositions(Len(L), i, j, k)
    IN  [n \in 1..Len(P) |-> L[P[n] + 1]]

\* C9: for every slice [i:j:k] with k # 0 (bounds omitted, negative or
\* beyond the length), r[i:j:k] is a DateRange with
\* list(r[i:j:k]) == list(r)[i:j:k].
C9_SliceIsListSlice ==
    (op = "slice" /\ arg.k # 0)
        => /\ IsOk(res)
           /\ ListOf(res.val) = ListSlice(ListOf(r), arg.i, arg.j, arg.k)

\* a backward slice with a negative bound of a range with a step
C9_Witness ==
    /\ op = "slice"
    /\ arg.k < 0
    /\ ~arg.i.none /\ arg.i.n < 0
    /\ Abs(r.step) > 1
    /\ IsOk(res)
    /\ Len(ListOf(res.val)) >= 2

-----------------------------------------------------------------------------
(* C10: date-like arguments of the membership operations *)

Member(o, self, date) ==
    IF o = "contains" THEN Contains(self, date)
    ELSE IF o = "index" THEN Index(self, date)
    ELSE Count(self, date)

AsDate(d) == [kind |-> "Date", ord |-> d]

\* C10 as claimed: d in r, r.index(d) and r.count(d) accept every date-like
\* argument the Date constructor accepts (a Date, a datetime.date, a textual
\* form, an integer yyyymmdd) and answer as for the equivalent Date.
C10_AcceptsEveryDateLike ==
    op \in {"contains", "index", "count"}
        => \A today \in Domain :
               LET d == DateNew(arg, today)
               IN  IsOk(d) => res = Member(op, r, AsDate(d.val))

\* C10 as amended: they accept the objects that have a toordinal method (a
\* Date, a datetime.date, a datetime.datetime) and answer as for the equivalent
\* Date, raising nothing but the ValueError of index for an absent date; given
\* a textual form or an integer they raise AttributeError.
C10_AcceptsDateObjects ==
    op \in {"contains", "index", "count"}
        => IF arg.kind \in {"Date", "date", "datetime"}
           THEN /\ res = Member(op, r, AsDate(arg.ord))
                /\ res.kind \in {"ok", "ValueError"}
                /\ res.kind = "ValueError"
                       => (op = "index" /\ arg.ord \notin SetOf(r))
           ELSE res.kind = "AttributeError"

\* the text of a date of r, asked for and refused
C10_Witness ==
    /\ op = "contains"
    /\ arg.kind = "str"
    /\ IsOk(DateNew(arg, MinOrd))
    /\ DateNew(arg, MinOrd).val \in SetOf(r)
    /\ res.kind = "AttributeError"

-----------------------------------------------------------------------------
(* C11: intersection of ranges of opposite directions *)

\* C11: whenever the steps of the two operands have opposite signs,
\* intersection raises ValueError and returns no range.
C11_OppositeSignsRaise ==
    (op = "intersection" /\ ~SameSign(r, arg.val))
        => res = Raise("ValueError")

\* a forward and a backward range with a date in common
C11_Witness ==
    /\ op = "intersection"
    /\ r.step > 0
    /\ arg.val.step < 0
    /\ SetOf(r) \cap SetOf(arg.val) # {}
    /\ res.kind = "ValueError"

-----------------------------------------------------------------------------
(* C12 - C15: the part-whole relations *)

UnitSteps(g, h) == Abs(g.step) = 1 /\ Abs(h.step) = 1

C13_OverlapsIsCommonDate ==
    op = "overlaps"
        => /\ res = Ok(SetOf(r) \cap SetOf(arg.val) # {})
           /\ (SetOf(r) = {} /\ SetOf(arg.val) = {}) => res = Ok(FALSE)

\* two ranges of different non-unit steps, one within the ends of the other,
\* that have no date in common
C13_Witness ==
    /\ op = "overlaps"
    /\ Abs(r.step) > 1
    /\ Abs(arg.val.step) > 1
    /\ Abs(r.step) # Abs(arg.val.step)
    /\ Len(ListOf(r)) >= 2
    /\ Len(ListOf(arg.val)) >= 2
    /\ First(r) < First(arg.val)
    /\ Last(arg.val) < Last(r)
    /\ res = Ok(FALSE)

\* what C14 says of the list L that a - b returns
IsRemainder(a, b, L) ==
    LET A == SetOf(a)
        B == SetOf(b)
        inside == /\ B # {}
                  /\ \E x \in A : \A y \in B : x < y
                  /\ \E x \in A : \A y \in B : x > y
    IN  /\ Len(L) \in 0..2
        /\ \A n \in 1..Len(L) : SetOf(L[n]) # {}
        /\ Len(L) = 2 => \A x \in SetOf(L[1]) : \A y \in SetOf(L[2]) : x < y
        /\ UNION {SetOf(L[n]) : n \in 1..Len(L)} = A \ B
        /\ A \subseteq B <=> L = <<>>
        /\ (A # {} /\ A \cap B = {}) => L = <<a>>
        /\ (A \cap B # {} /\ ~(A \subseteq B) /\ ~inside) => Len(L) = 1
        /\ (A \cap B # {} /\ inside)
               => /\ Len(L) = 2
                  /\ SetOf(L[1]) = {x \in A : \A y \in B : x < y}
                  /\ SetOf(L[2]) = {x \in A : \A y \in B : x > y}

Misaligned(g, h) ==
    /\ Abs(g.step) # Abs(h.step)
    /\ Abs(g.step) > 1
    /\ Abs(h.step) > 1
    /\ PyMod(h.start - g.start, egcd(Abs(g.step), Abs(h.step))[1]) # 0

\* C15: of two ranges with mismatched, misaligned, non-unit steps, is_part,
\* is_proper_part, underlaps, is_adjacent, union and difference raise
\* NotImplementedError and return nothing, and overlaps returns a boolean.
C15_UnsupportedPairsRaise ==
    /\ (/\ op \in {"is_part", "is_proper_part", "underlaps", "is_adjacent",
                    "union", "difference"}
        /\ Misaligned(r, arg.val))
           => res = Raise("NotImplementedError")
    /\ (op = "overlaps" /\ Misaligned(r, arg.val))
           => (IsOk(res) /\ res.val \in BOOLEAN)

\* such a pair, given to union
C15_Witness ==
    /\ op = "union"
    /\ Misaligned(r, arg.val)
    /\ SetOf(r) # {}
    /\ SetOf(arg.val) # {}
    /\ res.kind = "NotImplementedError"

-----------------------------------------------------------------------------
(* C16: relative markers *)

\* the current day of the call the state records
TodayOf(a) == _today(TIMEZONE, a.instant)

\* the signed number of days a marker token carries
MarkerDays(t) == IF t.sign = "-" THEN -t.k ELSE t.k

\* what a text with the date token a and the marker token m must parse to,
\* the marker standing second (A:%..) or first (%..:A)
MarkerParse(a, m, second, step, today) ==
    LET A == DateNew([kind |-> "str", text |-> a.text], today)
        B == A.val + MarkerDays(m)
    IN  (IsOk(A) /\ B \in Domain)
            => res = Ok(IF second THEN Range(A.val, B, step)
                                  ELSE Range(B, A.val, step))

\* C16: from_string of 'A:%', 'A:%+k', 'A:%-k' gives the range with start A
\* and stop A offset by 0, +k, -k days; of '%:B', '%+k:B', '%-k:B' the range
\* with stop B and start B offset by 0, +k, -k days; the step is the third
\* field, 1 when there is none.
C16_RelativeMarkers ==
    (op = "from_string" /\ arg.kind = "text") =>
        /\ (arg.x.kind = "date" /\ arg.y.kind = "marker")
              => MarkerParse(arg.x, arg.y, TRUE, arg.step.n, TodayOf(arg))
        /\ (arg.x.kind = "marker" /\ arg.y.kind = "date")
              => MarkerParse(arg.y, arg.x, FALSE, arg.step.n, TodayOf(arg))

C16_Witness ==
    /\ op = "from_string"
    /\ arg.kind = "text"
    /\ arg.x = Marker("-", MaxOffset)
    /\ arg.y.kind = "date"
    /\ ~arg.step.given
    /\ IsOk(res)
    /\ res.val.start = res.val.stop - MaxOffset
    /\ res.val.step = 1

-----------------------------------------------------------------------------
(* C17: no call changes the instance it is made on *)

\* C17: no instance is mutated after construction: over any sequence of
\* calls on r (len, indexing, slicing, iteration, reversed, contains, index,
\* count, to_string, replace, intersection with r as either operand), every
\* step leaves the start, stop and step of r and the sequence r enumerates as
\* they were; what slicing, replace and intersection build is returned, r
\* itself is not changed.
C17_NeverMutated ==
    [][/\ r'.start = r.start
       /\ r'.stop = r.stop
       /\ r'.step = r.step
       /\ ListOf(r') = ListOf(r)]_vars

\* replace has returned a range with another start, stop and step than r's
C17_Witness ==
    /\ op = "replace"
    /\ IsOk(res)
    /\ res.val.start # r.start
    /\ res.val.stop # r.stop
    /\ res.val.step # r.step
    /\ ListOf(res.val) # ListOf(r)

-----------------------------------------------------------------------------
(* C18: the ambient timezone *)

\* the value a successful set_timezone(a) installs: a itself when it is None
\* or a tzinfo, the zone of that name when it is a name
Installed(a) ==
    IF a.kind = "str" THEN CHOOSE z \in Zones : z.name = a.name ELSE a

\* a name no zone has
Unknown(a) == a.kind = "str" /\ \A z \in Zones : z.name # a.name

\* C18: the ambient timezone is last-write-wins and resettable: it starts as
\* None; every set_timezone call that returns installs its argument (None
\* for set_timezone(None)) and returns the value in effect just before it;
\* no other step changes the value, a call that raises included; and
\* get_timezone() returns the value in effect, hence the one the most recent
\* call installed.
C18_LastWriteWins ==
    /\ TIMEZONE = NoTimezone
    /\ [][/\ (op' = "set_timezone" /\ ~Unknown(arg'))
                 => (res' = Ok(TIMEZONE) /\ TIMEZONE' = Installed(arg'))
          /\ op' = "set_timezone_utc"
                 => (res' = Ok(TIMEZONE) /\ TIMEZONE'.name = "UTC")
          /\ (op' \notin {"set_timezone", "set_timezone_utc"}
                  \/ (op' = "set_timezone" /\ Unknown(arg')))
                 => TIMEZONE' = TIMEZONE
          /\ op' = "get_timezone" => res' = Ok(TIMEZONE)]_vars

\* set_timezone(None) has reset a zone that was in effect
C18_Witness ==
    /\ op = "set_timezone"
    /\ arg = NoTimezone
    /\ IsOk(res)
    /\ res.val # NoTimezone
    /\ TIMEZONE = NoTimezone

-----------------------------------------------------------------------------
(* C19: what the ambient timezone reaches *)

\* the values TIMEZONE can hold
TzValues == {NoTimezone} \cup Zones

\* a date-like argument that names its date itself: a Date object, an
\* integer yyyymmdd, a text that is no delta
Absolute(x) ==
    \/ x.kind \in DateObjects
    \/ x.kind = "int" /\ x.n >= 1
    \/ x.kind = "str" /\ ~IsOk(delta_from_string(x.text))

\* the outcome of the recorded call, had TIMEZONE held tz
Under(tz) ==
    IF op = "init"
    THEN init(arg.start, arg.stop, arg.step, _today(tz, arg.instant))
    ELSE IF op = "from_string"
    THEN from_string(arg.text, _today(tz, arg.instant))
    ELSE IF op = "to_string" THEN to_string(r, arg.ypad)
    ELSE IF op = "slice" THEN GetSlice(r, arg.i, arg.j, arg.k)
    ELSE intersection(r, arg.val)

RangeCalls == {"init", "from_string", "to_string", "slice", "intersection"}

\* C19 as claimed: for the same arguments, the result of every DateRange
\* operation (construction from raw bounds, from_string, to_string, slicing,
\* intersection) is the same whatever value the ambient timezone holds.
C19_NoTimezoneLeak ==
    op \in RangeCalls => \A tz \in TzValues : res = Under(tz)

\* the date-like arguments of the recorded call are all absolute
AbsoluteCall ==
    /\ op = "init" => (Absolute(arg.start) /\ Absolute(arg.stop))
    /\ op = "from_string" => Absolute([kind |-> "str", text |-> TokenText(arg.x)])

\* C19 as amended: the result of to_string, slicing and intersection, and of
\* construction and from_string when their date arguments are absolute (Date
\* objects, integers yyyymmdd, texts of a date, MIN, MAX), is the same
\* whatever value the ambient timezone holds.
C19_AbsoluteArgumentsDoNotLeak ==
    (op \in RangeCalls /\ AbsoluteCall) => \A tz \in TzValues : res = Under(tz)

\* a range built from absolute bounds while a zone a day ahead is in effect
C19_Witness ==
    /\ op = "init"
    /\ AbsoluteCall
    /\ arg.start.kind = "int"
    /\ TIMEZONE \in Zones
    /\ _today(TIMEZONE, arg.instant) # _today(NoTimezone, arg.instant)
    /\ IsOk(res)
    /\ ListOf(res.val) # <<>>

-----------------------------------------------------------------------------
(* C20: the full range *)

\* C20: DateRange.full() is a range containing all supported dates: every
\* date d with MIN <= d <= MAX is in DateRange.full(), and DateRange.full(-1)
\* covers the same set of dates.
C20_FullContainsAll ==
    (op = "full" /\ arg.step \in {1, -1})
        => /\ IsOk(res)
           /\ \A d \in Domain : RangeContains(res.val, d)
           /\ SetOf(res.val) = SetOf(full(1).val)

-----------------------------------------------------------------------------
(* C21 - C22: the arithmetic of intersection *)

\* the greatest common divisor of two positive integers, by its definition
Gcd(a, b) ==
    CHOOSE g \in 1..a :
        /\ a % g = 0 /\ b % g = 0
        /\ \A h \in 1..a : (a % h = 0 /\ b % h = 0) => h <= g

\* C21: for two non-empty ranges of the same direction whose starts are not
\* aligned on g = gcd(|a.step|, |b.step|), that is (b.start - a.start) mod g
\* is not 0, intersection returns an empty DateRange.
C21_MisalignedGivesEmpty ==
    (/\ op = "intersection"
     /\ SameSign(r, arg.val)
     /\ SetOf(r) # {}
     /\ SetOf(arg.val) # {}
     /\ (arg.val.start - r.start) % Gcd(Abs(r.step), Abs(arg.val.step)) # 0)
        => /\ IsOk(res)
           /\ SetOf(res.val) = {}

\* what egcd(a, b) has returned is right: g is the gcd, a*x + b*y = g, it is
\* the triple intersection computes with, and x mod (b/g) is an inverse of
\* a/g modulo b/g
EgcdRight(a, b, t) ==
    /\ t[1] = Gcd(a, b)
    /\ a * t[2] + b * t[3] = t[1]
    /\ t = egcd(a, b)
    /\ PyMod((a \div t[1]) * PyMod(t[2], b \div t[1]), b \div t[1])
           = PyMod(1, b \div t[1])

\* C22: for all positive integers a and b, egcd(a, b) terminates and returns
\* a triple (g, x, y) with g = gcd(a, b) and a*x + b*y = g; so, inside
\* intersection, x mod (|b.step|/g) is a modular inverse of |a.step|/g modulo
\* |b.step|/g.
C22_EgcdIsBezout ==
    /\ [](op = "egcd" => res.kind \in {"running", "ok"})
    /\ []((op = "egcd" /\ IsOk(res)) => EgcdRight(arg.a, arg.b, res.val))
    /\ (op = "egcd") ~> (op = "egcd" /\ IsOk(res))

\* a triple with a gcd that is neither 1 nor an argument, found after more
\* than one iteration, with a negative coefficient
C22_Witness ==
    /\ op = "egcd"
    /\ IsOk(res)
    /\ res.val[1] > 1
    /\ res.val[1] < arg.b
    /\ arg.b < arg.a
    /\ res.val[2] < 0

-----------------------------------------------------------------------------
(* C23: the stored bounds *)

\* C23: every DateRange reached from valid constructor arguments by slicing
\* (any i:j:k), replace and intersection has a stored start and stop that are
\* dates of the supported domain [MIN, MAX], so that r.start, r.stop,
\* r.to_string() and r.replace() never raise on it.
C23_BoundsAreDates ==
    /\ r.start \in Domain
    /\ r.stop \in Domain
    /\ IsOk(StartOf(r))
    /\ IsOk(StopOf(r))
    /\ op = "to_string" => IsOk(res)
    /\ IsOk(replace(r, NoDate, NoDate, None, MinOrd))
    /\ (op \in {"slice", "intersection"} /\ IsOk(res))
           => (res.val.start \in Domain /\ res.val.stop \in Domain)

====
